---- MODULE Spec2Model ----
(***************************************************************************)
(* The authentication core of the login portal: the password hasher, the   *)
(* users table, the session store and the four routes of setupAuth, with   *)
(* the user-import script and the seed script that write to the same       *)
(* table.  Every await of a handler is a separate step, so handlers of     *)
(* different requests interleave as they do on the server.                 *)
(***************************************************************************)
EXTENDS Integers, Sequences, FiniteSets, TLC

(***************************************************************************)
(* Bounds of the model.                                                    *)
(***************************************************************************)
\* request handlers that may be in flight at the same time
MaxSlots == 2
\* requests received in one behaviour of SpecForms, SpecRace, SpecLogin
MaxRequests == 2
\* requests received in one behaviour of SpecSession
MaxSessionRequests == 3
\* last tick of the clock
MaxTime == 2
\* entries of user-data.json read by one run of the import script
MaxImport == 1
\* entries of the file the import script is run on more than once
MaxRerunFile == 2
\* runs of the import script on one file
MaxRuns == 2
\* events of the user on the auth page
MaxEvents == 7
\* stars in the list of one star-field instance
MaxStars == 4
\* largest delay a reset of a shooting star draws
MaxDelay == 1

\* cookie.maxAge (one week), in ticks of the model's clock: half a week each
SessionMaxAge == 2
\* byte length of the derived key asked of scrypt
KeyLen == 64

Slots == 1..MaxSlots

(***************************************************************************)
(* Text.  A password or a stored password column is a sequence of tokens:  *)
(* a run of characters without '.', the character '.', or the hex text of  *)
(* a derived key.  Every token is a record of the same shape.              *)
(***************************************************************************)
Txt(s) == [tag |-> "txt", s |-> s, of |-> <<>>, salt |-> <<>>]
Dot == [tag |-> "dot", s |-> ".", of |-> <<>>, salt |-> <<>>]
\* buf.toString("hex") of the key derived from password pw and salt
KeyHex(pw, salt) == [tag |-> "key", s |-> "", of |-> pw, salt |-> salt]

\* JavaScript's undefined / SQL NULL in a text column
Null == "<null>"
\* a value that is no token sequence: salt when split() yields one part
Undefined == <<Txt("<undefined>")>>

\* x || null
OrNull(x) == IF x = "" THEN Null ELSE x
\* !x for a string that may be missing
Falsy(x) == x = "" \/ x = Null

\* String.prototype.includes('.')
IncludesDot(pw) == \E i \in 1..Len(pw) : pw[i] = Dot

\* index of the first '.' in pw, or 0
RECURSIVE FirstDot(_, _)
FirstDot(pw, i) ==
    IF i > Len(pw) THEN 0
    ELSE IF pw[i] = Dot THEN i
    ELSE FirstDot(pw, i + 1)

\* const [hashed, salt] = stored.split(".")
SplitDot(stored) ==
    LET d == FirstDot(stored, 1) IN
    IF d = 0 THEN [hashed |-> stored, salt |-> Undefined]
    ELSE LET rest == SubSeq(stored, d + 1, Len(stored))
             e == FirstDot(rest, 1)
         IN [hashed |-> SubSeq(stored, 1, d - 1),
             salt |-> IF e = 0 THEN rest ELSE SubSeq(rest, 1, e - 1)]

(***************************************************************************)
(* Credential hasher.                                                      *)
(***************************************************************************)
\* randomBytes(16).toString("hex")
Salts == {<<Txt("5a17")>>, <<Txt("c0de")>>}

\* a Buffer: its byte length and, for a derived key, what it was derived from
Buf(len, pw, salt) == [len |-> len, of |-> pw, salt |-> salt]

\* scryptAsync(password, salt, 64)
Scrypt(pw, salt) == Buf(KeyLen, pw, salt)

\* hashPassword with the salt randomBytes drew
hashPassword(pw, salt) == <<KeyHex(pw, salt), Dot>> \o salt

\* Buffer.from(hashed, "hex"): the key a key's hex text encodes; the short
\* texts of this model decode to fewer than KeyLen bytes
BufferFromHex(hashed) ==
    IF Len(hashed) = 1 /\ hashed[1].tag = "key"
    THEN Buf(KeyLen, hashed[1].of, hashed[1].salt)
    ELSE Buf(0, <<>>, <<>>)

\* a comparison of the lengths of the two buffers only
comparePasswords_LengthOnly(supplied, stored) ==
    LET parts == SplitDot(stored)
        hashedBuf == BufferFromHex(parts.hashed)
    IN IF parts.salt = Undefined THEN "throw"
       ELSE LET suppliedBuf == Scrypt(supplied, parts.salt) IN
            IF hashedBuf.len # suppliedBuf.len THEN "throw" ELSE "true"

\* comparePasswords: "true", "false", or "throw" when scrypt is given an
\* undefined salt or timingSafeEqual buffers of different length
comparePasswords(supplied, stored) ==
    LET parts == SplitDot(stored)
        hashedBuf == BufferFromHex(parts.hashed)
    IN IF parts.salt = Undefined THEN "throw"
       ELSE LET suppliedBuf == Scrypt(supplied, parts.salt) IN
            IF hashedBuf.len # suppliedBuf.len THEN "throw"
            ELSE IF hashedBuf = suppliedBuf THEN "true" ELSE "false"

(***************************************************************************)
(* Inputs.  "" stands for a field that is missing or empty: the handlers   *)
(* test both with !x.                                                      *)
(***************************************************************************)
Pw1 == <<Txt("Secret123!")>>
PwDot == <<Txt("pass"), Dot, Txt("word")>>
NoPw == <<>>
Passwords == {NoPw, Pw1, PwDot}
Usernames == {"", "al", "alice", "Alice"}
\* a first name of 101 characters
LongName == "Maximilianmaximilianmaximilianmaximilianmaximilianmaximilianmaximilianmaximilianmaximilianmaximilianm"
FirstNames == {"", "A", "Al", LongName}
LastNames == {"", "B", "Bo"}
Emails == {"", "a-b.com", "a@b.com"}
Phones == {"", "+15551234567"}
AuthCodes == {"", "AC-1"}
CaptchaTokens == {"", "abc123"}

\* the request carries no session cookie
NoSid == 0

\* z.string().email() on the addresses of Emails
IsEmail(e) == e = "a@b.com"

\* length of a password column value: 2 hex digits per key byte
RECURSIVE TextLen(_)
TextLen(pw) ==
    IF pw = <<>> THEN 0
    ELSE (CASE Head(pw).tag = "key" -> 2 * KeyLen
            [] Head(pw).tag = "dot" -> 1
            [] OTHER -> Len(Head(pw).s)) + TextLen(Tail(pw))

Body(u, p, c, f, l, e, ph, a, t) ==
    [username |-> u, password |-> p, confirmPassword |-> c, firstName |-> f,
     lastName |-> l, email |-> e, phone |-> ph, authCode |-> a,
     captchaToken |-> t]

NoBody == Body("", NoPw, NoPw, "", "", "", "", "", "")

\* a registration body without a defect
Plain(u, p) == Body(u, p, p, "Al", "Bo", "a@b.com", "", "", "abc123")

PlainBodies == {Plain(u, p) : u \in {"alice", "Alice"}, p \in {Pw1, PwDot}}

\* the bodies that differ from b in one part: the names, the contact, the
\* auth code, the captcha token, the confirmation, the username, the password
Variants(b) ==
    {[b EXCEPT !.firstName = f, !.lastName = l] : f \in FirstNames, l \in LastNames}
    \cup {[b EXCEPT !.email = e, !.phone = ph] : e \in Emails, ph \in Phones}
    \cup {[b EXCEPT !.authCode = a] : a \in AuthCodes}
    \cup {[b EXCEPT !.captchaToken = t] : t \in CaptchaTokens}
    \cup {[b EXCEPT !.confirmPassword = c] : c \in Passwords}
    \cup {[b EXCEPT !.username = u] : u \in Usernames}
    \cup {[b EXCEPT !.password = NoPw, !.confirmPassword = NoPw]}

\* bodies of POST /api/register the model sends
RegisterBodies == UNION {Variants(b) : b \in PlainBodies}

\* the registration bodies sent while the scripts run: with an email, a
\* phone, both or neither
ScriptBodies ==
    {[Plain(u, Pw1) EXCEPT !.email = e, !.phone = ph] :
        u \in {"demo"}, e \in {"", "a@b.com"}, ph \in Phones}

\* the registration bodies SpecSession sends
SessionBodies == {Plain(u, Pw1) : u \in {"alice", "Alice"}}

\* bodies of POST /api/login the model sends
LoginBodies ==
    {Body(u, p, NoPw, "", "", "", "", "", t) :
        u \in {"alice", "Alice"}, p \in {Pw1, PwDot}, t \in CaptchaTokens}

\* the login bodies SpecSession sends
SessionLogins == {b \in LoginBodies : b.captchaToken # ""}

(***************************************************************************)
(* State.                                                                  *)
(***************************************************************************)
VARIABLES
    users,      \* rows of the users table
    nextId,     \* next value of the serial id
    sessions,   \* the MemoryStore: session id -> [userId, expires]
    nextSid,    \* session ids generated so far
    now,        \* the clock
    req,        \* per slot: the request in flight or last answered
    received,   \* requests received so far
    imp,        \* the import script: its position in user-data.json
    seed,       \* the seed script: its position
    hasher,     \* the hasher called on its own: its arguments and results
    hist,       \* history: the sessions issued and the session ids ended
    page,       \* the auth page in a browser: its two forms and what it sent
    sky         \* the star field: one instance of its effect

vars == <<users, nextId, sessions, nextSid, now, req, received, imp, seed,
          hasher, hist, page, sky>>

\* the variables of the server and of the scripts
server == <<users, nextId, sessions, nextSid, now, req, received, imp, seed,
            hasher, hist>>

NoUser == [id |-> 0, username |-> "", firstName |-> "", lastName |-> "",
           email |-> Null, phone |-> Null, password |-> <<>>,
           authCode |-> Null, createdAt |-> 0]

\* req.session of a request that loaded none
NoSession == [userId |-> 0, expires |-> 0]

NoResp == [status |-> 0, message |-> "", user |-> NoUser, sid |-> NoSid]

\* a request: what the handler holds (body, cookie, sessionID and session as
\* loaded from the store, hashedPassword, user, resp) and, as history, what it met and did: held is the row of its
\* username on arrival, registered whether a registration with its username
\* and password had succeeded on arrival, wasLive whether its cookie named a
\* session issued and neither ended nor expired on arrival, wasOpen whether
\* it named a session issued and not ended, wasYoung whether that session
\* had been issued less than maxAge before, existed whether its lookup found
\* the username, conflict whether its insert met the unique constraint,
\* inserted the id of the row it added, issued the session id it was given,
\* failed the await at which a collaborator of it threw
Idle == [op |-> "none", pc |-> "idle", body |-> NoBody, cookie |-> NoSid,
         sessionID |-> NoSid, session |-> NoSession,
         hashedPassword |-> <<>>, user |-> NoUser,
         resp |-> NoResp, held |-> NoUser, wasLive |-> FALSE,
         wasOpen |-> FALSE, wasYoung |-> FALSE,
         registered |-> FALSE,
         existed |-> FALSE, conflict |-> FALSE, inserted |-> 0,
         issued |-> NoSid, failed |-> ""]

(***************************************************************************)
(* The users table.                                                        *)
(***************************************************************************)
\* a lookup that folds case: "Alice" finds "alice"
Fold(username) == IF username = "Alice" THEN "alice" ELSE username
findByUsername_FoldCase(rows, username) ==
    IF \E r \in rows : Fold(r.username) = Fold(username)
    THEN CHOOSE r \in rows : Fold(r.username) = Fold(username)
    ELSE NoUser

\* db.query.users.findFirst({ where: eq(users.username, username) })
findByUsername(rows, username) ==
    IF \E r \in rows : r.username = username
    THEN CHOOSE r \in rows : r.username = username
    ELSE NoUser

\* db.query.users.findFirst({ where: eq(users.id, id) })
findById(rows, id) ==
    IF \E r \in rows : r.id = id
    THEN CHOOSE r \in rows : r.id = id
    ELSE NoUser

\* the username column without its unique constraint
UniqueViolation_Absent(rows, v) == FALSE

\* .unique() on the username column
UniqueViolation(rows, v) == \E r \in rows : r.username = v.username

\* .notNull() and varchar lengths of the columns
ColumnViolation(v) ==
    \/ v.firstName = Null \/ v.lastName = Null \/ v.username = Null
    \/ Len(v.firstName) > 100 \/ Len(v.lastName) > 100
    \/ Len(v.username) > 100
    \/ (v.email # Null /\ Len(v.email) > 255)
    \/ (v.phone # Null /\ Len(v.phone) > 20)
    \/ TextLen(v.password) > 255
    \/ (v.authCode # Null /\ Len(v.authCode) > 100)

\* whether db.insert(users).values(v) throws
InsertFails(rows, v) == ColumnViolation(v) \/ UniqueViolation(rows, v)

\* the row db.insert(users).values(v) adds: serial id, createdAt defaultNow()
NewRow(v, id, t) ==
    [id |-> id, username |-> v.username, firstName |-> v.firstName,
     lastName |-> v.lastName, email |-> v.email, phone |-> v.phone,
     password |-> v.password, authCode |-> v.authCode, createdAt |-> t]

\* the schema with min(2) taken as "more than 2 characters"
SchemaRejects_OffByOne(v) ==
    \/ Len(v.firstName) <= 2
    \/ Len(v.lastName) <= 2
    \/ Len(v.username) < 3
    \/ (v.email # Null /\ ~IsEmail(v.email))

\* userDbSchema.parse(user) throws
SchemaRejects(v) ==
    \/ Len(v.firstName) < 2
    \/ Len(v.lastName) < 2
    \/ Len(v.username) < 3
    \/ (v.email # Null /\ ~IsEmail(v.email))

(***************************************************************************)
(* The session store.                                                      *)
(***************************************************************************)
\* a store that never lets an entry expire
Live_Forever(store, sid, t) == sid \in DOMAIN store

\* store.get(sid) finds an entry that has not expired
Live(store, sid, t) == sid \in DOMAIN store /\ t < store[sid].expires

\* req.isAuthenticated(): the session was found and holds passport.user
Authenticated(store, sid, t) == Live(store, sid, t) /\ store[sid].userId # 0

\* a store whose touch leaves the expiry as it is
Touch_Never(store, sid, t) == store

\* store.touch(sid, session) at the end of a response whose session was
\* loaded from the store and not changed: an entry that is still there gets
\* the full maxAge again
Touch(store, sid, t) ==
    IF Live(store, sid, t)
    THEN [store EXCEPT ![sid].expires = t + SessionMaxAge]
    ELSE store

\* a logout that saves the session as it was loaded, passport.user included
SaveLoggedOut_KeepsUser(store, sid, loaded) ==
    IF sid = NoSid THEN store
    ELSE [s \in DOMAIN store \cup {sid} |-> IF s = sid THEN loaded ELSE store[s]]

\* a logout that takes the account out of every session that holds it
SaveLoggedOut_Everywhere(store, sid, loaded) ==
    IF sid = NoSid THEN store
    ELSE [s \in DOMAIN store \cup {sid} |->
            IF s = sid THEN [userId |-> 0, expires |-> loaded.expires]
            ELSE IF store[s].userId = loaded.userId
                 THEN [store[s] EXCEPT !.userId = 0]
                 ELSE store[s]]

\* session.save() in req.logout: the session the request loaded is written
\* back without passport.user, with the expiry it was loaded with
SaveLoggedOut(store, sid, loaded) ==
    IF sid = NoSid THEN store
    ELSE [s \in DOMAIN store \cup {sid} |->
            IF s = sid THEN [userId |-> 0, expires |-> loaded.expires]
            ELSE store[s]]

\* a destroy that removes nothing
Destroy_Nothing(store, sid) == store

\* store.destroy(sid)
Destroy(store, sid) == [s \in DOMAIN store \ {sid} |-> store[s]]

\* req.login keeping the id of the session the request came with
NewSid_Kept(old, last) == IF old # NoSid THEN old ELSE last + 1

\* the session id req.login saves the new session under
NewSid(old, last) == last + 1

\* req.login(user): the session is regenerated (the old id is destroyed, a
\* new id is generated) and saved with passport.user = user.id
LoginSession(store, old, last, userId, t) ==
    LET sid == NewSid(old, last)
        kept == Destroy(store, old)
    IN [s \in DOMAIN kept \cup {sid} |->
            IF s = sid THEN [userId |-> userId, expires |-> t + SessionMaxAge]
            ELSE kept[s]]

(***************************************************************************)
(* Responses.                                                              *)
(***************************************************************************)
\* the value left where a field was removed from a response
Omitted == <<Txt("<omitted>")>>

\* the user sent as it is
WithoutPassword_Kept(u) == u

\* const { password, ...userWithoutPassword } = user
WithoutPassword(u) == [u EXCEPT !.password = Omitted]

Reply(status, message) ==
    [status |-> status, message |-> message, user |-> NoUser, sid |-> NoSid]

ReplyUser(status, u, sid) ==
    [status |-> status, message |-> "", user |-> WithoutPassword(u), sid |-> sid]

MissingFields == Reply(400, "Missing required fields: username, password, firstName, and lastName are required")
NoContact == Reply(400, "Either email or phone number is required")
Mismatch == Reply(400, "Passwords do not match")
UsernameExists == Reply(400, "Username already exists")
CaptchaRequired == Reply(400, "CAPTCHA verification is required")
InvalidLogin == Reply(401, "Invalid username or password")
NotAuthenticated == Reply(401, "Not authenticated")
\* next(error): the error handler's answer
InternalError == Reply(500, "Internal Server Error")

Done(r, resp) == [r EXCEPT !.pc = "done", !.resp = resp]

Free(s) == req[s].pc \in {"idle", "done"}

\* history: sid was issued by a registration or a login and no logout has
\* ended it and no login replaced it since
IssuedAndOpen(sid) == sid \notin hist.ended /\ sid \in DOMAIN hist.seen

\* history: the time sid was issued
IssuedAt(sid) == (CHOOSE e \in hist.issued : e.sid = sid).at

\* history: sid was issued by a registration or a login, no logout has
\* ended it and no login replaced it since, and t is less than maxAge after
\* the last time it was issued or carried by an answered request
IssuedAndValid(sid, t) ==
    /\ sid \notin hist.ended
    /\ sid \in DOMAIN hist.seen
    /\ t < hist.seen[sid] + SessionMaxAge

\* history after req.login in request r gave it session id sid
Issue(r, sid) ==
    [issued |-> hist.issued \cup
                  {[sid |-> sid, op |-> r.op, username |-> r.user.username,
                    password |-> r.body.password, at |-> now]},
     ended |-> hist.ended \cup ({r.sessionID} \ {NoSid}),
     seen |-> (sid :> now) @@ hist.seen]

\* history after request r was answered: the session it carried was seen
Seen(r) ==
    IF r.pc = "done" /\ IssuedAndValid(r.sessionID, now)
    THEN [hist EXCEPT !.seen = (r.sessionID :> now) @@ @]
    ELSE hist

\* res.end of the request in slot s, if this step answers it: the session
\* middleware touches the session the request came with
EndResponse(s) ==
    /\ sessions' = IF req'[s].pc = "done"
                   THEN Touch(sessions, req'[s].sessionID, now)
                   ELSE sessions
    /\ hist' = Seen(req'[s])

\* the session middleware: req.sessionID is the cookie's id when the store
\* holds a live session for it, else a new id that is saved nowhere
Arrive(op, b, c) ==
    [Idle EXCEPT !.op = op, !.body = b, !.cookie = c,
                 !.sessionID = IF Live(sessions, c, now) THEN c ELSE NoSid,
                 !.session = IF Live(sessions, c, now) THEN sessions[c]
                             ELSE NoSession,
                 !.held = findByUsername(users, b.username),
                 !.wasLive = IssuedAndValid(c, now),
                 !.wasOpen = IssuedAndOpen(c),
                 !.wasYoung = IssuedAndOpen(c) /\ now < IssuedAt(c) + SessionMaxAge,
                 !.registered = \E e \in hist.issued :
                                    /\ e.op = "register"
                                    /\ e.username = b.username
                                    /\ e.password = b.password]

\* session ids a client may send: none, any id ever generated, a forged one
ForgedSid == 99
Cookies == {NoSid, ForgedSid} \cup (1..nextSid)
\* the cookies a browser holds: none, or an id the server has set
IssuedCookies == {NoSid} \cup (1..nextSid)

(***************************************************************************)
(* POST /api/register                                                      *)
(***************************************************************************)
\* the checks without the one of the contact method
RegisterValidation_NoContactCheck(b) ==
    IF Falsy(b.username) \/ b.password = NoPw \/ Falsy(b.firstName)
       \/ Falsy(b.lastName)
    THEN MissingFields
    ELSE IF b.password # b.confirmPassword THEN Mismatch
    ELSE NoResp

\* the checks before the first await
RegisterValidation(b) ==
    IF Falsy(b.username) \/ b.password = NoPw \/ Falsy(b.firstName)
       \/ Falsy(b.lastName)
    THEN MissingFields
    ELSE IF Falsy(b.email) /\ Falsy(b.phone) THEN NoContact
    ELSE IF b.password # b.confirmPassword THEN Mismatch
    ELSE NoResp

\* the request arrives and is validated
RegisterReceive(s, b, c) ==
    /\ Free(s)
    /\ received' = received + 1
    /\ LET r == Arrive("register", b, c)
           v == RegisterValidation(b)
       IN req' = [req EXCEPT ![s] =
                    IF v # NoResp THEN Done(r, v)
                    ELSE [r EXCEPT !.pc = "reg_check"]]
    /\ EndResponse(s)
    /\ UNCHANGED <<users, nextId, nextSid, now, imp, seed, hasher,
                   page, sky>>

\* await storage.getUserByUsername(username)
RegisterCheck(s) ==
    /\ req[s].pc = "reg_check"
    /\ LET existingUser == findByUsername(users, req[s].body.username) IN
       req' = [req EXCEPT ![s] =
                 IF existingUser # NoUser
                 THEN Done([@ EXCEPT !.existed = TRUE], UsernameExists)
                 ELSE [@ EXCEPT !.pc = "reg_hash"]]
    /\ EndResponse(s)
    /\ UNCHANGED <<users, nextId, nextSid, now, received, imp, seed, hasher,
                   page, sky>>

\* the record without the auth code of the request
UserData_NoAuthCode(b, hashed) ==
    [username |-> b.username, password |-> hashed, firstName |-> b.firstName,
     lastName |-> b.lastName, email |-> OrNull(b.email),
     phone |-> OrNull(b.phone), authCode |-> Null]

\* the record handed to storage.createUser
UserData(b, hashed) ==
    [username |-> b.username, password |-> hashed, firstName |-> b.firstName,
     lastName |-> b.lastName, email |-> OrNull(b.email),
     phone |-> OrNull(b.phone), authCode |-> OrNull(b.authCode)]

\* await hashPassword(password), then createUser up to its insert
RegisterHash(s, salt) ==
    /\ req[s].pc = "reg_hash"
    /\ LET hashed == hashPassword(req[s].body.password, salt)
           userData == UserData(req[s].body, hashed)
       IN req' = [req EXCEPT ![s] =
                    IF SchemaRejects(userData)
                    THEN Done([@ EXCEPT !.hashedPassword = hashed], InternalError)
                    ELSE [@ EXCEPT !.pc = "reg_insert", !.hashedPassword = hashed]]
    /\ EndResponse(s)
    /\ UNCHANGED <<users, nextId, nextSid, now, received, imp, seed, hasher,
                   page, sky>>

\* an insert that replaces the row of the username when there is one
RegisterInsert_Upsert(s) ==
    /\ req[s].pc = "reg_insert"
    /\ LET v == UserData(req[s].body, req[s].hashedPassword) IN
       IF ColumnViolation(v)
       THEN /\ req' = [req EXCEPT ![s] = Done(@, InternalError)]
            /\ UNCHANGED <<users, nextId>>
       ELSE /\ users' = (users \ {r \in users : r.username = v.username})
                            \cup {NewRow(v, nextId, now)}
            /\ nextId' = nextId + 1
            /\ req' = [req EXCEPT ![s].pc = "reg_fetch", ![s].inserted = nextId]
    /\ EndResponse(s)
    /\ UNCHANGED <<nextSid, now, received, imp, seed, hasher,
                   page, sky>>

\* await db.insert(users).values(validUser)
RegisterInsert(s) ==
    /\ req[s].pc = "reg_insert"
    /\ LET v == UserData(req[s].body, req[s].hashedPassword) IN
       IF InsertFails(users, v)
       THEN /\ req' = [req EXCEPT ![s] =
                         Done([@ EXCEPT !.conflict = UniqueViolation(users, v)],
                              InternalError)]
            /\ UNCHANGED <<users, nextId>>
       ELSE /\ users' = users \cup {NewRow(v, nextId, now)}
            /\ nextId' = nextId + 1
            /\ req' = [req EXCEPT ![s].pc = "reg_fetch", ![s].inserted = nextId]
    /\ EndResponse(s)
    /\ UNCHANGED <<nextSid, now, received, imp, seed, hasher,
                   page, sky>>

\* await db.query.users.findFirst(...) of the inserted user
RegisterFetch(s) ==
    /\ req[s].pc = "reg_fetch"
    /\ LET insertedUser == findByUsername(users, req[s].body.username) IN
       req' = [req EXCEPT ![s] =
                 IF insertedUser = NoUser THEN Done(@, InternalError)
                 ELSE [@ EXCEPT !.pc = "reg_login", !.user = insertedUser]]
    /\ EndResponse(s)
    /\ UNCHANGED <<users, nextId, nextSid, now, received, imp, seed, hasher,
                   page, sky>>

\* req.login(user, ...) and the 201 answer
RegisterLogin(s) ==
    /\ req[s].pc = "reg_login"
    /\ sessions' = LoginSession(sessions, req[s].sessionID, nextSid, req[s].user.id, now)
    /\ nextSid' = nextSid + 1
    /\ req' = [req EXCEPT ![s] =
                 Done([@ EXCEPT !.issued = NewSid(req[s].sessionID, nextSid)],
                      ReplyUser(201, req[s].user, NewSid(req[s].sessionID, nextSid)))]
    /\ hist' = Issue(req[s], NewSid(req[s].sessionID, nextSid))
    /\ UNCHANGED <<users, nextId, now, received, imp, seed, hasher,
                   page, sky>>

(***************************************************************************)
(* POST /api/login                                                         *)
(***************************************************************************)
\* the handler without its captcha check
CaptchaMissing_Never(b) == FALSE

\* if (!captchaToken)
CaptchaMissing(b) == Falsy(b.captchaToken)

\* the captcha check before passport.authenticate
LoginReceive(s, b, c) ==
    /\ Free(s)
    /\ received' = received + 1
    /\ LET r == Arrive("login", b, c) IN
       req' = [req EXCEPT ![s] =
                 IF CaptchaMissing(b) THEN Done(r, CaptchaRequired)
                 ELSE [r EXCEPT !.pc = "login_lookup"]]
    /\ EndResponse(s)
    /\ UNCHANGED <<users, nextId, nextSid, now, imp, seed, hasher,
                   page, sky>>

\* LocalStrategy: await storage.getUserByUsername(username)
LoginLookup(s) ==
    /\ req[s].pc = "login_lookup"
    /\ LET user == findByUsername(users, req[s].body.username) IN
       req' = [req EXCEPT ![s] =
                 IF user = NoUser THEN Done(@, InvalidLogin)
                 ELSE [@ EXCEPT !.pc = "login_compare", !.user = user,
                                !.existed = TRUE]]
    /\ EndResponse(s)
    /\ UNCHANGED <<users, nextId, nextSid, now, received, imp, seed, hasher,
                   page, sky>>

\* a strategy that lets a wrong password through
LoginCompare_Lenient(s) ==
    /\ req[s].pc = "login_compare"
    /\ LET same == comparePasswords(req[s].body.password, req[s].user.password) IN
       req' = [req EXCEPT ![s] =
                 CASE same = "throw" -> Done(@, InternalError)
                   [] OTHER -> [@ EXCEPT !.pc = "login_session"]]
    /\ EndResponse(s)
    /\ UNCHANGED <<users, nextId, nextSid, now, received, imp, seed, hasher,
                   page, sky>>

\* LocalStrategy: await comparePasswords(password, user.password)
LoginCompare(s) ==
    /\ req[s].pc = "login_compare"
    /\ LET same == comparePasswords(req[s].body.password, req[s].user.password) IN
       req' = [req EXCEPT ![s] =
                 CASE same = "throw" -> Done(@, InternalError)
                   [] same = "false" -> Done(@, InvalidLogin)
                   [] OTHER -> [@ EXCEPT !.pc = "login_session"]]
    /\ EndResponse(s)
    /\ UNCHANGED <<users, nextId, nextSid, now, received, imp, seed, hasher,
                   page, sky>>

\* req.login(user, ...) and the 200 answer
LoginLogin(s) ==
    /\ req[s].pc = "login_session"
    /\ sessions' = LoginSession(sessions, req[s].sessionID, nextSid, req[s].user.id, now)
    /\ nextSid' = nextSid + 1
    /\ req' = [req EXCEPT ![s] =
                 Done([@ EXCEPT !.issued = NewSid(req[s].sessionID, nextSid)],
                      ReplyUser(200, req[s].user, NewSid(req[s].sessionID, nextSid)))]
    /\ hist' = Issue(req[s], NewSid(req[s].sessionID, nextSid))
    /\ UNCHANGED <<users, nextId, now, received, imp, seed, hasher,
                   page, sky>>

(***************************************************************************)
(* POST /api/logout                                                        *)
(***************************************************************************)
LogoutReceive(s, c) ==
    /\ Free(s)
    /\ received' = received + 1
    /\ req' = [req EXCEPT ![s] = [Arrive("logout", NoBody, c) EXCEPT !.pc = "logout"]]
    /\ EndResponse(s)
    /\ UNCHANGED <<users, nextId, nextSid, now, imp, seed, hasher,
                   page, sky>>

\* req.logout(...), first half: passport.user is removed from the session
\* and the session is saved.  A request that loaded no session saves and
\* then destroys a fresh id no client holds, which leaves the store as it was
LogoutSave(s) ==
    /\ req[s].pc = "logout"
    /\ sessions' = SaveLoggedOut(sessions, req[s].sessionID, req[s].session)
    /\ req' = [req EXCEPT ![s].pc = "logout_regenerate"]
    /\ hist' = [hist EXCEPT !.ended = @ \cup ({req[s].sessionID} \ {NoSid})]
    /\ UNCHANGED <<users, nextId, nextSid, now, received, imp, seed, hasher,
                   page, sky>>

\* req.logout(...), second half: the session is regenerated, so the old id
\* is destroyed and the new one is never saved; then sendStatus(200)
LogoutRespond(s) ==
    /\ req[s].pc = "logout_regenerate"
    /\ sessions' = Destroy(sessions, req[s].sessionID)
    /\ req' = [req EXCEPT ![s] = Done(@, Reply(200, "OK"))]
    /\ UNCHANGED <<users, nextId, nextSid, now, received, imp, seed, hasher, hist,
                   page, sky>>

(***************************************************************************)
(* GET /api/user                                                           *)
(***************************************************************************)
\* without a session that holds passport.user there is no req.user: 401
UserReceive(s, c) ==
    /\ Free(s)
    /\ received' = received + 1
    /\ LET r == Arrive("user", NoBody, c) IN
       req' = [req EXCEPT ![s] =
                 IF ~Authenticated(sessions, c, now) THEN Done(r, NotAuthenticated)
                 ELSE [r EXCEPT !.pc = "deserialize",
                                !.user = [NoUser EXCEPT !.id = sessions[c].userId]]]
    /\ EndResponse(s)
    /\ UNCHANGED <<users, nextId, nextSid, now, imp, seed, hasher,
                   page, sky>>

\* passport.deserializeUser: await storage.getUserById(id), then the handler
UserRespond(s) ==
    /\ req[s].pc = "deserialize"
    /\ LET user == findById(users, req[s].user.id) IN
       req' = [req EXCEPT ![s] =
                 IF user = NoUser THEN Done(@, InternalError)
                 ELSE Done([@ EXCEPT !.user = user], ReplyUser(200, user, NoSid))]
    /\ EndResponse(s)
    /\ UNCHANGED <<users, nextId, nextSid, now, received, imp, seed, hasher,
                   page, sky>>

(***************************************************************************)
(* Collaborators that fail: the database, scrypt, the session store.       *)
(***************************************************************************)
\* the awaits on the database and on scrypt
QueryPoints == {"reg_check", "reg_hash", "reg_insert", "reg_fetch",
                "login_lookup", "login_compare", "deserialize"}

\* the calls of req.login and the two halves of req.logout
StorePoints == {"reg_login", "login_session", "logout", "logout_regenerate"}

\* a handler that answers 200 when a collaborator throws
CollaboratorFails_Swallowed(s) ==
    /\ req[s].pc \in QueryPoints
    /\ req' = [req EXCEPT ![s] =
                 Done([@ EXCEPT !.failed = req[s].pc], Reply(200, "OK"))]
    /\ EndResponse(s)
    /\ UNCHANGED <<users, nextId, nextSid, now, received, imp, seed, hasher,
                   page, sky>>

\* a query, the insert or scrypt throws (the statement has changed nothing):
\* the catch of the handler, of the strategy or of deserializeUser hands
\* the error to next
CollaboratorFails(s) ==
    /\ req[s].pc \in QueryPoints
    /\ req' = [req EXCEPT ![s] =
                 Done([@ EXCEPT !.failed = req[s].pc], InternalError)]
    /\ EndResponse(s)
    /\ UNCHANGED <<users, nextId, nextSid, now, received, imp, seed, hasher,
                   page, sky>>

\* the session store fails in req.login (regenerate, then save) or in
\* req.logout (save, then regenerate): the callback hands the error to
\* next.  destroyed: regenerate had destroyed the old session of a login
\* before the save of the new one failed
SessionStoreFails(s, destroyed) ==
    /\ req[s].pc \in StorePoints
    /\ destroyed => /\ req[s].pc \in {"reg_login", "login_session"}
                    /\ req[s].sessionID # NoSid
    /\ req' = [req EXCEPT ![s] =
                 Done([@ EXCEPT !.failed = req[s].pc], InternalError)]
    /\ IF destroyed
       THEN /\ sessions' = Destroy(sessions, req[s].sessionID)
            /\ hist' = [hist EXCEPT !.ended = @ \cup {req[s].sessionID}]
       ELSE EndResponse(s)
    /\ UNCHANGED <<users, nextId, nextSid, now, received, imp, seed, hasher,
                   page, sky>>

(***************************************************************************)
(* The clock and the store's periodic prune.                               *)
(***************************************************************************)
Tick ==
    /\ now < MaxTime
    /\ now' = now + 1
    /\ UNCHANGED <<users, nextId, sessions, nextSid, req, received, imp, hist, seed, hasher,
                   page, sky>>

\* a prune that empties the store
Sweep_Everything ==
    /\ sessions # <<>>
    /\ sessions' = <<>>
    /\ UNCHANGED <<users, nextId, nextSid, now, req, received, imp, hist, seed, hasher,
                   page, sky>>

\* MemoryStore checkPeriod: expired entries are removed
Sweep ==
    /\ \E sid \in DOMAIN sessions : ~Live(sessions, sid, now)
    /\ sessions' = [sid \in {x \in DOMAIN sessions : Live(sessions, x, now)} |->
                      sessions[sid]]
    /\ UNCHANGED <<users, nextId, nextSid, now, req, received, imp, hist, seed, hasher,
                   page, sky>>

(***************************************************************************)
(* db/import.ts                                                            *)
(***************************************************************************)
Entry(u, p, e) ==
    [username |-> u, firstName |-> "Al", lastName |-> "Bo", email |-> e,
     phone |-> "", password |-> p, authCode |-> ""]

\* the entries user-data.json may hold
ImportEntries ==
    {Entry(u, p, "a@b.com") : u \in {"alice", "Alice"}, p \in {Pw1, PwDot}}

\* entries with and without an email, for the scripts run side by side
ScriptEntries ==
    {Entry(u, p, e) : u \in {"alice", "demo"}, p \in {Pw1, PwDot},
                      e \in {"", "a@b.com"}}

\* files of several accounts, one of them with the username the form sends
RerunEntries == {Entry(u, Pw1, "a@b.com") : u \in {"alice", "demo"}}

RerunFiles == UNION {[1..n -> RerunEntries] : n \in 1..MaxRerunFile}

ScriptFiles == UNION {[1..n -> ScriptEntries] : n \in 1..MaxImport}

ImportFiles == UNION {[1..n -> ImportEntries] : n \in 1..MaxImport}

\* run counts the runs of the script
NoImport == [pc |-> "off", file |-> <<>>, i |-> 0, password |-> <<>>,
             run |-> 0]

\* the loop moves to the next entry, or the script ends
ImportAdvance(m) ==
    IF m.i < Len(m.file)
    THEN [m EXCEPT !.pc = "hash", !.i = m.i + 1, !.password = <<>>]
    ELSE [m EXCEPT !.pc = "end", !.password = <<>>]

\* JSON.parse(fs.readFileSync('./user-data.json'))
ImportStart(file) ==
    /\ imp.pc = "off"
    /\ imp' = [pc |-> "hash", file |-> file, i |-> 1, password |-> <<>>,
               run |-> 1]
    /\ UNCHANGED <<users, nextId, sessions, nextSid, now, req, received, hist, seed, hasher,
                   page, sky>>

\* the script is run once more on the file it was run on
ImportAgain ==
    /\ imp.pc = "end"
    /\ imp.run < MaxRuns
    /\ imp' = [imp EXCEPT !.pc = "hash", !.i = 1, !.password = <<>>,
                          !.run = @ + 1]
    /\ UNCHANGED <<users, nextId, sessions, nextSid, now, req, received, hist, seed, hasher,
                   page, sky>>

\* the password the script goes on with: hashed unless it holds a '.'
ImportPassword(pw, salt) ==
    IF pw # NoPw /\ ~IncludesDot(pw) THEN hashPassword(pw, salt) ELSE pw

\* if (user.password && !user.password.includes('.')) await hashPassword
ImportHash(salt) ==
    /\ imp.pc = "hash"
    /\ imp' = [imp EXCEPT !.pc = "check",
                          !.password = ImportPassword(imp.file[imp.i].password, salt)]
    /\ UNCHANGED <<users, nextId, sessions, nextSid, now, req, received, hist, seed, hasher,
                   page, sky>>

\* await db.query.users.findFirst(...): an existing user is skipped
ImportCheck ==
    /\ imp.pc = "check"
    /\ LET existingUser == findByUsername(users, imp.file[imp.i].username) IN
       imp' = IF existingUser # NoUser THEN ImportAdvance(imp)
              ELSE [imp EXCEPT !.pc = "insert"]
    /\ UNCHANGED <<users, nextId, sessions, nextSid, now, req, received, hist, seed, hasher,
                   page, sky>>

\* the values of the script's insert
ImportValues(user, password) ==
    [username |-> user.username, password |-> password,
     firstName |-> user.firstName, lastName |-> user.lastName,
     email |-> OrNull(user.email), phone |-> OrNull(user.phone),
     authCode |-> OrNull(user.authCode)]

\* await db.insert(users).values({...}); an error ends the script
ImportInsert ==
    /\ imp.pc = "insert"
    /\ LET v == ImportValues(imp.file[imp.i], imp.password) IN
       IF InsertFails(users, v)
       THEN /\ imp' = [imp EXCEPT !.pc = "end"]
            /\ UNCHANGED <<users, nextId>>
       ELSE /\ users' = users \cup {NewRow(v, nextId, now)}
            /\ nextId' = nextId + 1
            /\ imp' = ImportAdvance(imp)
    /\ UNCHANGED <<sessions, nextSid, now, req, received, hist, seed, hasher,
                   page, sky>>

(***************************************************************************)
(* db/seed.ts                                                              *)
(***************************************************************************)
NoSeed == [pc |-> "off", password |-> <<>>]

\* hashPassword("password123")
SeedPassword == <<Txt("password123")>>

\* the values of the seed's insert: the columns it does not name are NULL
SeedValues(password) ==
    [username |-> "demo", password |-> password, firstName |-> Null,
     lastName |-> Null, email |-> Null, phone |-> Null, authCode |-> Null]

\* const existingUsers = await db.query.users.findMany()
SeedStart ==
    /\ seed.pc = "off"
    /\ seed' = [seed EXCEPT !.pc = IF users = {} THEN "hash" ELSE "end"]
    /\ UNCHANGED <<users, nextId, sessions, nextSid, now, req, received, imp,
                   hasher, hist,
                   page, sky>>

\* await hashPassword("password123")
SeedHash(salt) ==
    /\ seed.pc = "hash"
    /\ seed' = [pc |-> "insert", password |-> hashPassword(SeedPassword, salt)]
    /\ UNCHANGED <<users, nextId, sessions, nextSid, now, req, received, imp,
                   hasher, hist,
                   page, sky>>

\* await db.insert(schema.users).values({username, password}); an error is
\* caught and logged
SeedInsert ==
    /\ seed.pc = "insert"
    /\ LET v == SeedValues(seed.password) IN
       IF InsertFails(users, v)
       THEN UNCHANGED <<users, nextId>>
       ELSE /\ users' = users \cup {NewRow(v, nextId, now)}
            /\ nextId' = nextId + 1
    /\ seed' = [seed EXCEPT !.pc = "end"]
    /\ UNCHANGED <<sessions, nextSid, now, req, received, imp, hasher, hist,
                   page, sky>>

(***************************************************************************)
(* The hasher called on its own.                                           *)
(***************************************************************************)
NoHasher == [pc |-> "idle", password |-> <<>>, digest |-> <<>>,
             supplied |-> <<>>, result |-> ""]

\* the passwords given to the hasher: empty, with and without a '.', and
\* pairs that differ in case or by a trailing '.'
HasherPasswords ==
    {NoPw, Pw1, PwDot, <<Txt("secret123!")>>, <<Txt("pass")>>,
     <<Txt("pass"), Dot>>}

\* the salts randomBytes may draw for it
HasherSalts == Salts \cup {<<Txt("0f0f")>>}

\* const digest = await hashPassword(password)
HasherHash(pw, salt) ==
    /\ hasher.pc = "idle"
    /\ hasher' = [hasher EXCEPT !.pc = "hashed", !.password = pw,
                                !.digest = hashPassword(pw, salt)]
    /\ UNCHANGED <<users, nextId, sessions, nextSid, now, req, received, imp,
                   seed, hist,
                   page, sky>>

\* await comparePasswords(supplied, digest)
HasherVerify(supplied) ==
    /\ hasher.pc = "hashed"
    /\ hasher' = [hasher EXCEPT !.pc = "verified", !.supplied = supplied,
                                !.result = comparePasswords(supplied, hasher.digest)]
    /\ UNCHANGED <<users, nextId, sessions, nextSid, now, req, received, imp,
                   seed, hist,
                   page, sky>>

(***************************************************************************)
(* client/src/pages/auth-page.tsx: the login form and the registration     *)
(* form.  The fields other than the captcha and the contact fields are     *)
(* taken together: filled in so that the schema accepts them, or not.      *)
(***************************************************************************)
\* codes generateCaptchaCode may return
Codes == {"Xk3PqZ", "a9BcD2"}

\* texts typed into a captcha field
CaptchaTexts == Codes \cup {"", "nope"}

\* texts typed into the phone field
FormPhones == Phones \cup {"555"}

\* /^\+?[0-9]{10,15}$/ on the texts of FormPhones
IsPhone(ph) == ph = "+15551234567"

\* the page before AuthPage is rendered: the default values of the forms
NoPage ==
    [pc |-> "closed",
     loginCaptchaCode |-> "", enteredLoginCaptcha |-> "",
     loginForm |-> [filled |-> FALSE, captchaToken |-> "", error |-> ""],
     captchaCode |-> "", enteredCaptcha |-> "", contactMethod |-> "email",
     registerForm |-> [filled |-> FALSE, email |-> "", phone |-> "",
                       captchaToken |-> "", error |-> ""],
     generated |-> 0, events |-> 0, last |-> "", sent |-> <<>>]

\* one more event of the user on the page
Event(n) == page.pc = "open" /\ page.events < n

\* the page after an event of the given kind
After(pg, kind) == [pg EXCEPT !.events = @ + 1, !.last = kind]

\* the first render: useState(generateCaptchaCode()) for each form
PageOpen(code, loginCode) ==
    /\ page.pc = "closed"
    /\ page' = [page EXCEPT !.pc = "open", !.captchaCode = code,
                            !.loginCaptchaCode = loginCode, !.generated = 2]
    /\ UNCHANGED <<server, sky>>

\* the username and the password of the login form are typed or cleared
TypeLoginFields(filled) ==
    /\ page' = After([page EXCEPT !.loginForm.filled = filled], "type")
    /\ UNCHANGED <<server, sky>>

\* onChange of the login captcha input
TypeLoginCaptcha(text) ==
    /\ page' = After([page EXCEPT !.enteredLoginCaptcha = text,
                                  !.loginForm.captchaToken = text], "type")
    /\ UNCHANGED <<server, sky>>

\* refreshLoginCaptcha
refreshLoginCaptcha(pg, code) ==
    [pg EXCEPT !.loginCaptchaCode = code, !.enteredLoginCaptcha = "",
               !.generated = @ + 1]

\* the refresh button of the login captcha
RefreshLoginCaptcha(code) ==
    /\ page' = After(refreshLoginCaptcha(page, code), "refresh")
    /\ UNCHANGED <<server, sky>>

\* zodResolver(loginSchema) finds an error
LoginSchemaRejects(form) == ~form.filled \/ form.captchaToken = ""

\* a comparison that lets every text through
CaptchaFails_Never(entered, code) == FALSE

\* if (enteredCaptcha !== captchaCode)
CaptchaFails(entered, code) == entered # code

\* the request loginMutation.mutate(data) sends
LoginRequest(pg) ==
    [form |-> "login", email |-> "", phone |-> "", contactMethod |-> "",
     captchaToken |-> pg.loginForm.captchaToken]

\* loginForm.handleSubmit(onLoginSubmit): the resolver, then the handler
SubmitLogin(code) ==
    /\ page' =
         After(IF LoginSchemaRejects(page.loginForm)
               THEN [page EXCEPT !.loginForm.error = "schema"]
               ELSE IF CaptchaFails(page.enteredLoginCaptcha,
                                    page.loginCaptchaCode)
               THEN [refreshLoginCaptcha(page, code) EXCEPT
                        !.loginForm.error = "captcha"]
               ELSE [page EXCEPT !.loginForm.error = "",
                                 !.sent = Append(@, LoginRequest(page))],
               "login")
    /\ UNCHANGED <<server, sky>>

\* the names, the username and the passwords of the registration form are
\* typed or cleared
TypeRegisterFields(filled) ==
    /\ page' = After([page EXCEPT !.registerForm.filled = filled], "type")
    /\ UNCHANGED <<server, sky>>

\* the email field, rendered while 'email' is selected
TypeEmail(text) ==
    /\ page.contactMethod = "email"
    /\ page' = After([page EXCEPT !.registerForm.email = text], "type")
    /\ UNCHANGED <<server, sky>>

\* the phone field, rendered while 'phone' is selected
TypePhone(text) ==
    /\ page.contactMethod = "phone"
    /\ page' = After([page EXCEPT !.registerForm.phone = text], "type")
    /\ UNCHANGED <<server, sky>>

\* an effect that leaves both fields as they are
ContactEffect_None(form, method) == form

\* useEffect on contactMethod: the field of the other method is emptied
ContactEffect(form, method) ==
    IF method = "email" THEN [form EXCEPT !.phone = ""]
    ELSE [form EXCEPT !.email = ""]

\* the radio group: setContactMethod(value), then the effect
SelectContactMethod(method) ==
    /\ method # page.contactMethod
    /\ page' = After([page EXCEPT !.contactMethod = method,
                                  !.registerForm = ContactEffect(@, method)],
                     "select")
    /\ UNCHANGED <<server, sky>>

\* onChange of the registration captcha input
TypeCaptcha(text) ==
    /\ page' = After([page EXCEPT !.enteredCaptcha = text,
                                  !.registerForm.captchaToken = text], "type")
    /\ UNCHANGED <<server, sky>>

\* refreshCaptcha
refreshCaptcha(pg, code) ==
    [pg EXCEPT !.captchaCode = code, !.enteredCaptcha = "",
               !.generated = @ + 1]

\* the refresh button of the registration captcha
RefreshCaptcha(code) ==
    /\ page' = After(refreshCaptcha(page, code), "refresh")
    /\ UNCHANGED <<server, sky>>

\* zodResolver(insertUserSchema) finds an error
RegisterSchemaRejects(form) ==
    \/ ~form.filled
    \/ (form.email # "" /\ ~IsEmail(form.email))
    \/ (form.phone # "" /\ ~IsPhone(form.phone))
    \/ form.captchaToken = ""
    \/ (form.email = "" /\ form.phone = "")

\* submissionData: the request registerMutation.mutate sends
RegisterRequest(pg) ==
    [form |-> "register",
     email |-> IF pg.contactMethod = "email" THEN pg.registerForm.email ELSE "",
     phone |-> IF pg.contactMethod = "phone" THEN pg.registerForm.phone ELSE "",
     contactMethod |-> pg.contactMethod,
     captchaToken |-> pg.registerForm.captchaToken]

\* registerForm.handleSubmit(onRegisterSubmit): the resolver, then the
\* handler
SubmitRegister(code) ==
    /\ page' =
         After(IF RegisterSchemaRejects(page.registerForm)
               THEN [page EXCEPT !.registerForm.error = "schema"]
               ELSE IF CaptchaFails(page.enteredCaptcha, page.captchaCode)
               THEN [refreshCaptcha(page, code) EXCEPT
                        !.registerForm.error = "captcha"]
               ELSE [page EXCEPT !.registerForm.error = "",
                                 !.sent = Append(@, RegisterRequest(page))],
               "register")
    /\ UNCHANGED <<server, sky>>

(***************************************************************************)
(***************************************************************************)
(* client/src/components/star-field.tsx                                    *)
(***************************************************************************)
\* Lengths are in steps of one frame of travel and opacities in tenths.
\* Only the shooting stars are kept; the path of a star is its distance y
\* from the edge it entered by.
\* the frames a star takes to cross the canvas
Height == 1
\* y of a star that is placed outside the canvas (-50)
Outside == 0 - 1
\* opacity 0.9
Visible == 9
\* shootingStarsDramatic
InitialCount == 2
\* initialDelay: i * 40 of the initial shooting stars
InitialStagger == 2
\* initialDelay: i * 25 of the stars of a burst
BurstStagger == 1
\* the setTimeout waves (200, 600 and 1000 ms), taken as one
InitialWaves == 1
\* burstCount: the stars of one burst
BurstCounts == {1, 2}
\* Math.floor(Math.random() * 150): the delays a reset may draw
Delays == 0..MaxDelay

\* a shooting star: no twinkling
ShootingStar(opacity, initialDelay) ==
    [y |-> Outside, opacity |-> opacity, twinkleSpeed |-> 0,
     twinkleDirection |-> TRUE, tail |-> TRUE, initialDelay |-> initialDelay]

\* the shooting stars pushed before the first frame
InitialStars == [i \in 1..InitialCount |->
                    ShootingStar(0, (i - 1) * InitialStagger)]

\* the stars one burst pushes
BurstStars(n) == [i \in 1..n |-> ShootingStar(0, (i - 1) * BurstStagger)]

\* the stars a wave pushes: visible at once
WaveStars == <<ShootingStar(Visible, 0)>>

NoSky == [pc |-> "off", mounted |-> FALSE, stars |-> <<>>, frame |-> FALSE,
          tick |-> 0, burst |-> FALSE, waves |-> 0]

\* animate: "Handle twinkling"
Twinkle(star) ==
    IF star.twinkleDirection
    THEN IF star.opacity + star.twinkleSpeed >= 10
         THEN [star EXCEPT !.opacity = 10, !.twinkleDirection = FALSE]
         ELSE [star EXCEPT !.opacity = @ + star.twinkleSpeed]
    ELSE IF star.opacity - star.twinkleSpeed <= 2
         THEN [star EXCEPT !.opacity = 2, !.twinkleDirection = TRUE]
         ELSE [star EXCEPT !.opacity = @ - star.twinkleSpeed]

\* the star leaves the canvas
OffScreen(y) == y > Height

\* animate: "Move stars based on their angle and speed", for a star with a
\* tail; delay is the delay a reset draws
Move(star, delay) ==
    IF star.initialDelay > 0
    THEN [star EXCEPT !.initialDelay = @ - 1,
                      !.opacity = IF star.initialDelay - 1 = 0 THEN Visible
                                  ELSE @]
    ELSE IF OffScreen(star.y + 1)
         THEN [star EXCEPT !.y = Outside, !.initialDelay = delay,
                           !.opacity = 0]
         ELSE [star EXCEPT !.y = @ + 1]

\* stars.forEach of one frame
Animate(stars, draw) ==
    [i \in 1..Len(stars) |-> Move(Twinkle(stars[i]), draw[i])]

\* the effect runs: the initial stars, the timers, the first frame
SkyMount ==
    /\ sky.pc = "off"
    /\ \E draw \in [1..InitialCount -> Delays] :
          sky' = [pc |-> "running", mounted |-> TRUE,
                  stars |-> Animate(InitialStars, draw), frame |-> TRUE,
                  tick |-> 1, burst |-> TRUE, waves |-> InitialWaves]
    /\ UNCHANGED <<server, page>>

\* animate, called by requestAnimationFrame
SkyFrame ==
    /\ sky.frame
    /\ \E draw \in [1..Len(sky.stars) -> Delays] :
          sky' = [sky EXCEPT !.stars = Animate(sky.stars, draw),
                             !.tick = 1 - @]
    /\ UNCHANGED <<server, page>>

\* one of the setTimeout waves (200, 600, 1000 ms) fires
SkyWave ==
    /\ sky.waves > 0
    /\ Len(sky.stars) + Len(WaveStars) <= MaxStars
    /\ sky' = [sky EXCEPT !.waves = @ - 1,
                          !.stars = IF sky.mounted THEN @ \o WaveStars ELSE @]
    /\ UNCHANGED <<server, page>>

\* createShootingStarBurst, called by its timer (first after 1500 ms, when
\* the waves have fired)
SkyBurst(n) ==
    /\ sky.burst
    /\ sky.waves = 0
    /\ Len(sky.stars) + n <= MaxStars
    /\ sky' = IF ~sky.mounted THEN [sky EXCEPT !.burst = FALSE]
              ELSE [sky EXCEPT !.stars = @ \o BurstStars(n)]
    /\ UNCHANGED <<server, page>>

\* the cleanup of the effect, on a theme change or when the component is
\* unmounted (the canvas ref is null then)
SkyCleanup(unmount) ==
    /\ sky.pc = "running"
    /\ sky' = [sky EXCEPT !.pc = "cleaned", !.frame = FALSE,
                          !.mounted = ~unmount]
    /\ UNCHANGED <<server, page>>


(* The specification.                                                      *)
(***************************************************************************)
Init ==
    /\ users = {}
    /\ nextId = 1
    /\ sessions = <<>>
    /\ nextSid = 0
    /\ now = 0
    /\ req = [s \in Slots |-> Idle]
    /\ received = 0
    /\ imp = NoImport
    /\ seed = NoSeed
    /\ hasher = NoHasher
    /\ hist = [issued |-> {}, ended |-> {}, seen |-> <<>>]
    /\ page = NoPage
    /\ sky = NoSky

\* the free slot the next request takes, while the budget of n requests lasts
Slot(s, n) == received < n /\ Free(s) /\ \A t \in Slots : t < s => ~Free(t)

\* no handler is between two of its awaits
Quiet == \A s \in Slots : Free(s)

RegisterSteps ==
    \/ \E s \in Slots : RegisterCheck(s)
    \/ \E s \in Slots, salt \in Salts : RegisterHash(s, salt)
    \/ \E s \in Slots : RegisterInsert(s)
    \/ \E s \in Slots : RegisterFetch(s)
    \/ \E s \in Slots : RegisterLogin(s)

LoginSteps ==
    \/ \E s \in Slots : LoginLookup(s)
    \/ \E s \in Slots : LoginCompare(s)
    \/ \E s \in Slots : LoginLogin(s)

ImportSteps ==
    \/ \E file \in ImportFiles : ImportStart(file)
    \/ \E salt \in Salts : ImportHash(salt)
    \/ ImportCheck
    \/ ImportInsert

\* registration forms of every kind, one request at a time
NextForms ==
    \/ \E s \in Slots, b \in RegisterBodies :
          Quiet /\ Slot(s, MaxRequests) /\ RegisterReceive(s, b, NoSid)
    \/ RegisterSteps
    \/ ImportSteps

SpecForms == Init /\ [][NextForms]_vars

\* registrations of well-formed bodies and the import script, interleaved
NextRace ==
    \/ \E s \in Slots, b \in PlainBodies : Slot(s, MaxRequests) /\ RegisterReceive(s, b, NoSid)
    \/ RegisterSteps
    \/ ImportSteps

SpecRace == Init /\ [][NextRace]_vars

\* registrations, the import script and logins
NextLogin ==
    \/ \E s \in Slots, b \in PlainBodies, c \in IssuedCookies :
          Slot(s, MaxRequests) /\ RegisterReceive(s, b, c)
    \/ RegisterSteps
    \/ ImportSteps
    \/ \E s \in Slots, b \in LoginBodies, c \in IssuedCookies :
          Slot(s, MaxRequests) /\ LoginReceive(s, b, c)
    \/ LoginSteps

SpecLogin == Init /\ [][NextLogin]_vars

\* sessions: issued by registration and login, read, destroyed, expiring
NextSession ==
    \/ \E s \in Slots, b \in SessionBodies, c \in IssuedCookies :
          Slot(s, MaxSessionRequests) /\ RegisterReceive(s, b, c)
    \/ RegisterSteps
    \/ \E s \in Slots, b \in SessionLogins, c \in IssuedCookies :
          Slot(s, MaxSessionRequests) /\ LoginReceive(s, b, c)
    \/ LoginSteps
    \/ \E s \in Slots, c \in Cookies : Slot(s, MaxSessionRequests) /\ LogoutReceive(s, c)
    \/ \E s \in Slots : LogoutSave(s)
    \/ \E s \in Slots : LogoutRespond(s)
    \/ \E s \in Slots, c \in Cookies : Slot(s, MaxSessionRequests) /\ UserReceive(s, c)
    \/ \E s \in Slots : UserRespond(s)
    \/ Tick
    \/ Sweep

SpecSession == Init /\ [][NextSession]_vars

\* a password is hashed and a password is verified against the digest
NextHasher ==
    \/ \E pw \in HasherPasswords, salt \in HasherSalts : HasherHash(pw, salt)
    \/ \E supplied \in HasherPasswords : HasherVerify(supplied)

SpecHasher == Init /\ [][NextHasher]_vars

SeedSteps ==
    \/ SeedStart
    \/ \E salt \in Salts : SeedHash(salt)
    \/ SeedInsert

\* the import script and the seed script, run while registrations arrive
\* one after the other
NextScripts ==
    \/ \E s \in Slots, b \in ScriptBodies :
          Quiet /\ Slot(s, MaxRequests) /\ RegisterReceive(s, b, NoSid)
    \/ RegisterSteps
    \/ \E file \in ScriptFiles : ImportStart(file)
    \/ \E salt \in Salts : ImportHash(salt)
    \/ ImportCheck
    \/ ImportInsert
    \/ SeedSteps

SpecScripts == Init /\ [][NextScripts]_vars

\* the import script run twice on one file while registrations arrive
NextImport ==
    \/ \E s \in Slots, b \in ScriptBodies :
          Quiet /\ Slot(s, MaxRequests) /\ RegisterReceive(s, b, NoSid)
    \/ RegisterSteps
    \/ \E file \in RerunFiles : ImportStart(file)
    \/ \E salt \in Salts : ImportHash(salt)
    \/ ImportCheck
    \/ ImportInsert
    \/ ImportAgain

SpecImport == Init /\ [][NextImport]_vars

\* a user on the auth page: typing, switching, refreshing, submitting
NextPage ==
    \/ \E code \in Codes, loginCode \in Codes : PageOpen(code, loginCode)
    \/ \E filled \in BOOLEAN : Event(MaxEvents) /\ TypeLoginFields(filled)
    \/ \E text \in CaptchaTexts : Event(MaxEvents) /\ TypeLoginCaptcha(text)
    \/ \E code \in Codes : Event(MaxEvents) /\ RefreshLoginCaptcha(code)
    \/ \E code \in Codes : Event(MaxEvents) /\ SubmitLogin(code)
    \/ \E filled \in BOOLEAN : Event(MaxEvents) /\ TypeRegisterFields(filled)
    \/ \E text \in Emails : Event(MaxEvents) /\ TypeEmail(text)
    \/ \E text \in FormPhones : Event(MaxEvents) /\ TypePhone(text)
    \/ \E method \in {"email", "phone"} :
          Event(MaxEvents) /\ SelectContactMethod(method)
    \/ \E text \in CaptchaTexts : Event(MaxEvents) /\ TypeCaptcha(text)
    \/ \E code \in Codes : Event(MaxEvents) /\ RefreshCaptcha(code)
    \/ \E code \in Codes : Event(MaxEvents) /\ SubmitRegister(code)

SpecPage == Init /\ [][NextPage]_vars

\* one instance of the star-field effect, from mount to after its cleanup
NextSky ==
    \/ SkyMount
    \/ SkyFrame
    \/ SkyWave
    \/ \E n \in BurstCounts : SkyBurst(n)
    \/ \E unmount \in BOOLEAN : SkyCleanup(unmount)

SpecSky == Init /\ [][NextSky]_vars

\* the bodies sent while collaborators may fail
FaultBodies == {Plain("alice", Pw1)}
FaultLogins == {b \in SessionLogins : b.username = "alice"}

\* the steps of the request in slot s, those that fail included
Handle(s) ==
    \/ RegisterCheck(s)
    \/ \E salt \in Salts : RegisterHash(s, salt)
    \/ RegisterInsert(s)
    \/ RegisterFetch(s)
    \/ RegisterLogin(s)
    \/ LoginLookup(s)
    \/ LoginCompare(s)
    \/ LoginLogin(s)
    \/ LogoutSave(s)
    \/ LogoutRespond(s)
    \/ UserRespond(s)
    \/ CollaboratorFails(s)
    \/ \E destroyed \in BOOLEAN : SessionStoreFails(s, destroyed)

\* the four routes with collaborators that may fail at every await
NextFaults ==
    \/ \E s \in Slots, b \in FaultBodies, c \in IssuedCookies :
          Slot(s, MaxSessionRequests) /\ RegisterReceive(s, b, c)
    \/ \E s \in Slots, b \in FaultLogins, c \in IssuedCookies :
          Slot(s, MaxSessionRequests) /\ LoginReceive(s, b, c)
    \/ \E s \in Slots, c \in IssuedCookies :
          Slot(s, MaxSessionRequests) /\ LogoutReceive(s, c)
    \/ \E s \in Slots, c \in IssuedCookies :
          Slot(s, MaxSessionRequests) /\ UserReceive(s, c)
    \/ \E s \in Slots : Handle(s)

SpecFaults == Init /\ [][NextFaults]_vars

\* the event loop runs every continuation that is ready
FairFaults == SpecFaults /\ \A s \in Slots : WF_vars(Handle(s))

(***************************************************************************)
(* Properties.                                                             *)
(***************************************************************************)
Answered(s) == req[s].pc = "done"

\* the rows of the users table with the given username
Holding(username) == {r \in users : r.username = username}

\* C1: whatever the interleaving of registrations (and of the import script)
\* with the same username, also when several pass the existence check before
\* any of them inserts, the users table never holds two rows with one
\* username.
C1_UniqueUsername ==
    \A r1 \in users, r2 \in users : r1.username = r2.username => r1 = r2

\* two registrations of one username both passed the existence check; one
\* inserted and was answered 201, the other met the constraint
C1_Witness ==
    \E s \in Slots, t \in Slots :
        /\ s # t
        /\ req[s].op = "register" /\ req[t].op = "register"
        /\ req[s].body.username = req[t].body.username
        /\ Answered(s) /\ req[s].resp.status = 201
        /\ Answered(t) /\ req[t].conflict /\ ~req[t].existed

\* C2: a registration whose insert fails on the unique constraint is answered
\* as a sequential duplicate is: 400 "Username already exists".
C2_ConflictIsDuplicate ==
    \A s \in Slots :
        (req[s].op = "register" /\ Answered(s) /\ req[s].conflict)
            => req[s].resp = UsernameExists

\* the request passed the checks of the handler's first lines
PassedValidation(s) == RegisterValidation(req[s].body) = NoResp

\* C3: a registration that passes validation and names a username the table
\* already held when it arrived is answered 400 "Username already exists";
\* it adds no row and issues no session, and the table still holds exactly
\* one row with that username, the row it held before.
C3_DuplicateRejected ==
    \A s \in Slots :
        (/\ req[s].op = "register" /\ Answered(s)
         /\ PassedValidation(s)
         /\ req[s].held # NoUser)
            => /\ req[s].resp = UsernameExists
               /\ req[s].inserted = 0 /\ req[s].issued = NoSid
               /\ Holding(req[s].body.username) = {req[s].held}

\* the second of two registrations of "alice" has been rejected; the first
\* one's row, made by a registration, is in the table
C3_Witness ==
    \E s \in Slots :
        /\ req[s].op = "register" /\ Answered(s)
        /\ req[s].body.username = "alice"
        /\ req[s].resp = UsernameExists
        /\ \E e \in hist.issued : e.op = "register" /\ e.username = "alice"

\* the bodies the handler's validation is to reject
Invalid(b) ==
    \/ b.firstName = "" \/ b.lastName = "" \/ b.username = ""
    \/ b.password = NoPw
    \/ (b.email = "" /\ b.phone = "")
    \/ b.password # b.confirmPassword

\* C4: a registration with firstName, lastName, username or password missing
\* or empty, with email and phone both empty, or with a confirmation that
\* differs from the password is answered 400 with one of the three
\* validation messages before anything else is done: it looks nothing up,
\* adds no row and issues no session.
C4_ValidationError ==
    \A s \in Slots :
        (req[s].op = "register" /\ Invalid(req[s].body))
            => /\ Answered(s)
               /\ req[s].resp \in {MissingFields, NoContact, Mismatch}
               /\ req[s].inserted = 0 /\ req[s].issued = NoSid
               /\ req[s].hashedPassword = <<>>

\* a registration without email and phone, otherwise plain, was rejected
C4_Witness ==
    \E s \in Slots :
        /\ req[s].op = "register" /\ Answered(s)
        /\ req[s].body.email = "" /\ req[s].body.phone = ""
        /\ req[s].body.firstName = "Al" /\ req[s].body.password = Pw1
        /\ req[s].body.confirmPassword = Pw1
        /\ req[s].resp = NoContact

\* C5: a registration that passes validation but carries no captcha token is
\* answered 400, adds no row and issues no session.
C5_ChallengeRequired ==
    \A s \in Slots :
        (/\ req[s].op = "register" /\ PassedValidation(s)
         /\ req[s].body.captchaToken = "")
            => /\ req[s].inserted = 0 /\ req[s].issued = NoSid
               /\ (Answered(s) => req[s].resp.status = 400)

\* the body would be accepted by the schema and the columns
Storable(b) ==
    /\ Len(b.firstName) \in 2..100 /\ Len(b.lastName) \in 2..100
    /\ Len(b.username) \in 3..100
    /\ (b.email = "" \/ (IsEmail(b.email) /\ Len(b.email) <= 255))
    /\ Len(b.phone) <= 20 /\ Len(b.authCode) <= 100

\* the registration succeeded: one row with a generated id for its username,
\* answered 201 with that row, and a live session of that row's id
Registered(s) ==
    /\ req[s].resp.status = 201
    /\ req[s].inserted > 0
    /\ \E r \in users :
          /\ Holding(req[s].body.username) = {r}
          /\ r.id = req[s].inserted
          /\ r.firstName = req[s].body.firstName
          /\ r.lastName = req[s].body.lastName
          /\ req[s].resp.user = WithoutPassword(r)
          /\ req[s].resp.sid = req[s].issued
          /\ Live(sessions, req[s].issued, now)
          /\ sessions[req[s].issued].userId = r.id

CreatedWith(r) ==
    IF r.password # <<>> /\ Head(r.password).tag = "key"
    THEN Head(r.password).of
    ELSE r.password

\* C7: a login (captcha given) with a username the lookup does not find, and
\* a login with a username it finds but another password than the row was
\* created with, are both answered 401 "Invalid username or password" and
\* issue no session.
C7_SameRejection ==
    \A s \in Slots :
        (/\ req[s].op = "login" /\ Answered(s)
         /\ req[s].body.captchaToken # ""
         /\ (~req[s].existed \/ CreatedWith(req[s].user) # req[s].body.password))
            => (req[s].resp = InvalidLogin /\ req[s].issued = NoSid)

\* C8: a login without a captcha token is answered 400 "CAPTCHA verification
\* is required" at once: no row is looked up, no password compared, no
\* session issued, whatever the username and the password.
C8_ChallengeFirst ==
    \A s \in Slots :
        (req[s].op = "login" /\ req[s].body.captchaToken = "")
            => /\ Answered(s)
               /\ req[s].resp = CaptchaRequired
               /\ ~req[s].existed /\ req[s].user = NoUser
               /\ req[s].issued = NoSid

\* a login without a captcha token but with the username and the password
\* of a row of the table was rejected
C8_Witness ==
    \E s \in Slots :
        /\ req[s].op = "login" /\ Answered(s)
        /\ req[s].body.captchaToken = ""
        /\ req[s].held # NoUser
        /\ CreatedWith(req[s].held) = req[s].body.password
        /\ req[s].resp = CaptchaRequired

\* C9: a login (captcha given) that arrives after a registration with the
\* same username and password has succeeded is answered 200 with that
\* account, and its session id is one no registration was given.
C9_LoginAfterRegister ==
    \A s \in Slots :
        (/\ req[s].op = "login" /\ Answered(s)
         /\ req[s].body.captchaToken # ""
         /\ req[s].registered)
            => /\ req[s].resp.status = 200
               /\ req[s].resp.user.username = req[s].body.username
               /\ req[s].issued # NoSid
               /\ req[s].resp.sid = req[s].issued
               /\ \E e \in hist.issued : e.sid = req[s].issued /\ e.op = "login"
               /\ \A e \in hist.issued : e.op = "register" => e.sid # req[s].issued

\* a login that came with the cookie of the registration's session succeeded
C9_Witness ==
    \E s \in Slots :
        /\ req[s].op = "login" /\ Answered(s)
        /\ req[s].registered
        /\ req[s].resp.status = 200
        /\ \E e \in hist.issued : e.op = "register" /\ e.sid = req[s].cookie

\* C10: GET /api/user is answered with the account of the session when its
\* cookie names a session that was issued by a registration or a login and
\* was neither destroyed nor expired when the request arrived, and 401 "Not
\* authenticated" in every other case.
C10_CurrentUser ==
    \A s \in Slots :
        (req[s].op = "user" /\ Answered(s))
            => IF req[s].wasLive
               THEN /\ req[s].resp.status = 200
                    /\ \E e \in hist.issued, r \in users :
                          /\ e.sid = req[s].cookie
                          /\ r.username = e.username
                          /\ req[s].resp.user = WithoutPassword(r)
               ELSE req[s].resp = NotAuthenticated

\* one request was answered with the account of a login's session
C10_Witness ==
    \E s \in Slots :
        /\ req[s].op = "user" /\ Answered(s)
        /\ req[s].resp.status = 200
        /\ \E e \in hist.issued : e.op = "login" /\ e.sid = req[s].cookie

\* the sessions GET /api/user answers with an account, and for which account
View(store, t) ==
    [sid \in {x \in DOMAIN store : Authenticated(store, x, t)} |->
        store[sid].userId]

\* every logout that was answered was answered 200, and the id it came with
\* names no session with an account
C11_Succeeds ==
    \A s \in Slots :
        (req[s].op = "logout" /\ Answered(s))
            => /\ req[s].resp = Reply(200, "OK")
               /\ ~Authenticated(sessions, req[s].cookie, now)

\* a step of a logout whose id named no valid session when it arrived (none
\* was ever issued under it, or a logout had ended it, or it had expired)
\* leaves the accounts and the sessions with an account as they were
C11_SecondLogout ==
    \A s \in Slots :
        (/\ req[s].op = "logout" /\ ~req[s].wasLive
         /\ req[s].pc \in {"logout", "logout_regenerate"}
         /\ req'[s].pc # req[s].pc)
            => /\ View(sessions', now') = View(sessions, now)
               /\ users' = users

\* C11: POST /api/logout is answered 200 whether its session id names a live
\* session, one already destroyed or none at all; once it is answered, the
\* id names no session with an account; and a logout of an id that named no
\* valid session changes nothing (a second logout leaves what the first
\* left).
C11_LogoutIdempotent == []C11_Succeeds /\ [][C11_SecondLogout]_vars

\* two logouts with the id of an issued session were answered 200: the first
\* found the session live, the second arrived after the first had ended it
C11_Witness ==
    \E s \in Slots, t \in Slots :
        /\ s # t
        /\ req[s].op = "logout" /\ req[t].op = "logout"
        /\ Answered(s) /\ Answered(t)
        /\ req[s].cookie = req[t].cookie
        /\ \E e \in hist.issued : e.sid = req[s].cookie
        /\ req[s].wasLive /\ ~req[t].wasLive
        /\ req[s].resp.status = 200 /\ req[t].resp.status = 200

\* C12: no answer carries a password column: every answer of a registration
\* (201), a login (200) or GET /api/user (200) carries a row of the users
\* table with its password field removed, and every other answer carries no
\* row at all.
C12_NoDigestInResponse ==
    \A s \in Slots :
        Answered(s) =>
            IF req[s].op \in {"register", "login", "user"}
               /\ req[s].resp.status \in {200, 201}
            THEN /\ req[s].resp.user.password = Omitted
                 /\ \E r \in users :
                       /\ r.password # Omitted
                       /\ req[s].resp.user = [r EXCEPT !.password = Omitted]
            ELSE req[s].resp.user = NoUser

\* a login and GET /api/user were each answered with the account of a row
\* whose password column holds a digest
C12_Witness ==
    \A o \in {"login", "user"} :
        \E s \in Slots, r \in users :
            /\ req[s].op = o /\ Answered(s)
            /\ req[s].resp.status = 200
            /\ req[s].resp.user.id = r.id
            /\ r.password # <<>> /\ Head(r.password).tag = "key"

\* the text has the form <hash>.<salt>: a '.' with a salt after it, and
\* before it the hex text of a key of the derived length
IsDigest(stored) ==
    LET parts == SplitDot(stored) IN
    /\ parts.salt # Undefined /\ parts.salt # <<>>
    /\ BufferFromHex(parts.hashed).len = KeyLen

\* the text holds no derived key: it is what somebody typed
IsPlaintext(pw) == \A i \in 1..Len(pw) : pw[i].tag # "key"

\* C13: the password column of every row of the users table holds a digest
\* of the form <hash>.<salt> and never a plaintext password, whether a
\* registration or the import script added the row.
C13_StoredIsDigest ==
    \A r \in users : IsDigest(r.password) /\ ~IsPlaintext(r.password)

\* C19: every row of the users table holds a non-empty email or a non-empty
\* phone, whether a registration, the import script or the seed script added
\* it (rows are never changed, so a row is as it was created).
C19_ContactAtCreation ==
    \A r \in users : ~Falsy(r.email) \/ ~Falsy(r.phone)

\* C14: a login (captcha given) with the username of a row whose password
\* column holds no well-formed digest (no '.', no salt after it, or a hash
\* part that does not decode to a key of the derived length) is answered 401
\* "Invalid username or password", as every failed verification is.
C14_MalformedIsRejected ==
    \A s \in Slots :
        (/\ req[s].op = "login" /\ Answered(s)
         /\ req[s].body.captchaToken # ""
         /\ req[s].existed
         /\ ~IsDigest(req[s].user.password))
            => req[s].resp = InvalidLogin

\* C15: for every password P and every salt hashPassword may draw,
\* comparePasswords(P, hashPassword(P)) is true and, for every other
\* password Q, comparePasswords(Q, hashPassword(P)) is false; neither throws.
C15_VerifyInvertsHash ==
    hasher.pc = "verified"
        => hasher.result = IF hasher.supplied = hasher.password THEN "true"
                           ELSE "false"

\* "pass." was verified against the digest of "pass" and found different
C15_Witness ==
    /\ hasher.pc = "verified"
    /\ hasher.password = <<Txt("pass")>>
    /\ hasher.supplied = <<Txt("pass"), Dot>>
    /\ hasher.digest = hashPassword(<<Txt("pass")>>, <<Txt("0f0f")>>)
    /\ hasher.result = "false"

C17_SweepStep ==
    (sessions' # sessions /\ UNCHANGED <<req, received, hist, now>>)
        => /\ DOMAIN sessions' =
                {sid \in DOMAIN sessions : now < sessions[sid].expires}
           /\ \A sid \in DOMAIN sessions' : sessions'[sid] = sessions[sid]
           /\ UNCHANGED <<users, nextId, nextSid>>

\* whether the store has a session with an account for an id is told by the
\* history of the sessions issued, used and ended, which no prune enters
C17_SweepUnobserved ==
    \A sid \in Cookies :
        Authenticated(sessions, sid, now) <=> IssuedAndValid(sid, now)

\* C17: the store's prune removes exactly the entries whose expiry is at or
\* before the current time and changes nothing else, and whether an id has a
\* live session at a time does not depend on whether or how often the prune
\* has run.
C17_SweepOnlyExpired == []C17_SweepUnobserved /\ [][C17_SweepStep]_vars

\* the prune has removed the entry of a session that expired without being
\* ended, and the store still holds a live session
C17_Witness ==
    /\ \E sid \in DOMAIN hist.seen :
          /\ sid \notin hist.ended
          /\ sid \notin DOMAIN sessions
    /\ \E sid \in DOMAIN sessions : Authenticated(sessions, sid, now)

\* C18: whatever the interleaving of logouts and GET /api/user with the same
\* session id (and of logins that replace it): once an id's session was ended
\* the id never again names a session with an account, and every GET
\* /api/user that arrives with it from then on is answered 401 "Not
\* authenticated".
C18_EndedStaysEnded ==
    /\ \A sid \in hist.ended : ~Authenticated(sessions, sid, now)
    /\ \A s \in Slots :
          (/\ req[s].op = "user" /\ Answered(s)
           /\ req[s].cookie \in DOMAIN hist.seen
           /\ ~req[s].wasOpen)
              => req[s].resp = NotAuthenticated

\* a GET /api/user that arrived between the two halves of a logout of its
\* session was answered 401
C18_Witness ==
    \E s \in Slots, t \in Slots :
        /\ req[s].op = "user" /\ Answered(s)
        /\ req[s].cookie \in DOMAIN hist.seen /\ ~req[s].wasOpen
        /\ req[s].resp = NotAuthenticated
        /\ req[t].op = "logout" /\ req[t].pc = "logout_regenerate"
        /\ req[t].cookie = req[s].cookie /\ req[t].wasLive

\* C20: the row added by a registration that was answered 201 holds the
\* auth code of the request as it was given, or NULL when the request gave
\* none or an empty one, and the answer carries the same value.
C20_AuthCodeVerbatim ==
    \A s \in Slots :
        (req[s].op = "register" /\ Answered(s) /\ req[s].resp.status = 201)
            => \E r \in users :
                  /\ r.id = req[s].inserted
                  /\ r.authCode = IF req[s].body.authCode = "" THEN Null
                                  ELSE req[s].body.authCode
                  /\ req[s].resp.user.authCode = r.authCode

\* a registration with the auth code "AC-1" was answered 201 and its row
\* holds "AC-1"
C20_Witness ==
    \E s \in Slots, r \in users :
        /\ req[s].op = "register" /\ Answered(s)
        /\ req[s].resp.status = 201
        /\ req[s].body.authCode = "AC-1"
        /\ r.id = req[s].inserted /\ r.authCode = "AC-1"

\* a step of the import script
ImportStep == imp' # imp

\* C22: the import script never inserts a row for a username the users
\* table already holds, also when the file repeats a username, and a second
\* run of the script on the same file adds no row and changes none: it
\* leaves the table as the first run left it.
C22_ImportIdempotent ==
    [][ImportStep =>
         /\ \A r \in users' \ users : Holding(r.username) = {}
         /\ users \subseteq users'
         /\ imp.run > 1 => users' = users]_vars

\* where a request stands: validated once the checks before the first
\* await have passed, credential-checked once the strategy has verified the
\* password or createUser has returned the row, responded with the session
\* issued, or rejected
Phase(r) ==
    CASE r.pc = "idle" -> "Idle"
      [] r.pc \in {"reg_check", "reg_hash", "reg_insert", "reg_fetch",
                   "login_lookup", "login_compare"} -> "Validated"
      [] r.pc \in {"reg_login", "login_session"} -> "CredentialChecked"
      [] r.pc = "done" /\ r.resp.status \in {200, 201} -> "Responded"
      [] OTHER -> "Rejected"

\* the credential step of request r has succeeded
CredentialChecked(r) ==
    \/ /\ r.op = "login"
       /\ r.existed
       /\ r.user \in users
       /\ r.user.username = r.body.username
       /\ comparePasswords(r.body.password, r.user.password) = "true"
    \/ /\ r.op = "register"
       /\ r.inserted # 0
       /\ r.user \in users
       /\ r.user.id = r.inserted
       /\ r.user.password = r.hashedPassword
       /\ IsDigest(r.user.password)

C23_States ==
    \A s \in Slots :
        /\ Phase(req[s]) = "CredentialChecked" => CredentialChecked(req[s])
        /\ req[s].issued # NoSid =>
              CredentialChecked(req[s]) /\ Phase(req[s]) = "Responded"
        /\ Phase(req[s]) = "Responded" =>
              req[s].issued # NoSid /\ req[s].resp.sid = req[s].issued
        /\ Phase(req[s]) = "Rejected" =>
              req[s].issued = NoSid /\ req[s].resp.sid = NoSid

C23_Steps ==
    \A s \in Slots :
        LET from == Phase(req[s])
            to == Phase(req'[s])
        IN /\ req'[s] # req[s] =>
                \/ from \in {"Idle", "Responded", "Rejected"}
                      /\ to \in {"Validated", "Rejected"}
                \/ from = "Validated"
                      /\ to \in {"Validated", "CredentialChecked", "Rejected"}
                \/ from = "CredentialChecked" /\ to = "Responded"
           \* a session is written only by the step that answers with it
           /\ (nextSid' # nextSid /\ req'[s] # req[s]) =>
                from = "CredentialChecked" /\ req'[s].issued = nextSid'

\* C23: every register and login request goes from received through
\* validated and credential-checked to responded with its session, or ends
\* rejected: a session is issued only for a request whose credential step
\* has succeeded (login: the password verifies against the stored digest of
\* the account; registration: the account was hashed and inserted), and a
\* rejected request has issued no session and got no success response.
C23_RequestOrder == []C23_States /\ [][C23_Steps]_vars

\* a login answered 200 with a session next to a login rejected with 401
C23_Witness ==
    \E s \in Slots, t \in Slots :
        /\ req[s].op = "login" /\ Phase(req[s]) = "Responded"
        /\ req[s].issued # NoSid
        /\ req[t].op = "login" /\ Phase(req[t]) = "Rejected"
        /\ req[t].resp.status = 401 /\ req[t].existed

C25_Step ==
    /\ users \subseteq users'
    /\ (\A s \in Slots : req'[s] = req[s]) => users' = users
    /\ \A s \in Slots :
          req'[s] # req[s] =>
             IF req'[s].op \in {"login", "logout", "user"}
             THEN users' = users
             ELSE \/ users' = users
                  \/ /\ req[s].pc = "reg_insert"
                     /\ req[s].inserted = 0
                     /\ \E row \in users' :
                           /\ row \notin users
                           /\ users' = users \cup {row}
                           /\ row.id = req'[s].inserted
                           /\ \A r \in users : r.id # row.id

\* C25: no step removes a row of the users table or changes one: the steps
\* of login, logout and current-user requests leave the table as it is, and
\* a registration request leaves it as it is or adds one row, once, and
\* changes no field of the rows that were there.
C25_AccountsOnlyAdded == [][C25_Step]_vars

\* an account was registered and later logins and logouts were answered
C25_Witness ==
    \E s \in Slots, t \in Slots :
        /\ req[s].op = "login" /\ Answered(s) /\ req[s].resp.status = 200
        /\ req[t].op = "logout" /\ Answered(t) /\ req[t].wasLive
        /\ \E r \in users : r.username = req[s].body.username

\* the store entries other than the one under sid
Others(store, sid) == [x \in DOMAIN store \ {sid} |-> store[x]]

C27_Step ==
    \A s \in Slots :
        /\ (/\ req[s].op = "logout"
            /\ req[s].pc \in {"logout", "logout_regenerate"}
            /\ req'[s].pc # req[s].pc)
               => Others(sessions', req[s].sessionID)
                     = Others(sessions, req[s].sessionID)
        /\ (/\ received' # received /\ req'[s] # req[s]
            /\ req'[s].op = "logout" /\ req'[s].pc = "logout")
               => sessions' = sessions

\* C27: the steps of a logout request change no entry of the session store
\* but the one of the session the request came with: every other session,
\* of the same account or of another, stays in the store with its account
\* and its expiry.
C27_LogoutOwnSessionOnly == [][C27_Step]_vars

\* an account with two sessions, one from its registration and one from a
\* login, after the logout of one of them: the other one still answers
C27_Witness ==
    \E s \in Slots, e1 \in hist.issued, e2 \in hist.issued :
        /\ req[s].op = "logout" /\ Answered(s) /\ req[s].wasLive
        /\ e1.op = "register" /\ e2.op = "login"
        /\ e1.username = e2.username
        /\ req[s].cookie \in {e1.sid, e2.sid}
        /\ \E sid \in {e1.sid, e2.sid} \ {req[s].cookie} :
              /\ Authenticated(sessions, sid, now)
              /\ sessions[sid].userId = req[s].session.userId

\* a request in flight has no answer yet; a request during which a
\* collaborator failed is answered with the error
C24_Reported ==
    \A s \in Slots :
        /\ ~Free(s) => req[s].resp = NoResp /\ req[s].failed = ""
        /\ Answered(s) => req[s].resp.status # 0
        /\ (Answered(s) /\ req[s].failed # "") =>
              /\ req[s].resp = InternalError
              /\ req[s].issued = NoSid

\* the answer of a request stays as it was sent until the slot takes the
\* next request
C24_Once ==
    \A s \in Slots :
        (Answered(s) /\ req'[s] # req[s]) => received' = received + 1

\* C24: every register, login, logout and current-user request is answered,
\* once; when the database, scrypt or the session store failed during it,
\* the answer is the error answer: no failure is answered as a success and
\* none leaves the request without an answer.
C24_FailuresReported ==
    /\ []C24_Reported
    /\ [][C24_Once]_vars
    /\ \A s \in Slots : (~Free(s)) ~> Answered(s)

\* a login answered 500 after the session store failed in req.login, next
\* to a request answered 500 after a query or scrypt failed
C24_Witness ==
    \E s \in Slots, t \in Slots :
        /\ Answered(s) /\ req[s].failed = "login_session"
        /\ req[s].resp.status = 500
        /\ Answered(t) /\ req[t].failed \in QueryPoints
        /\ req[t].resp.status = 500

\* C26: when a registration is answered with an error, the users table
\* holds no row that this request inserted.
C26_AllOrNothing ==
    \A s \in Slots :
        (/\ req[s].op = "register" /\ Answered(s)
         /\ req[s].resp.status >= 400)
            => \A r \in users : r.id # req[s].inserted

\* the step is a submit of the login form, of the registration form
LoginSubmitted == page'.events # page.events /\ page'.last = "login"
RegisterSubmitted == page'.events # page.events /\ page'.last = "register"

\* a request leaves only when the entered text is the displayed code
C21_SentOnlyOnMatch ==
    /\ (LoginSubmitted /\ page'.sent # page.sent) =>
          /\ page.enteredLoginCaptcha = page.loginCaptchaCode
          /\ page'.sent = Append(page.sent, LoginRequest(page))
          /\ LoginRequest(page).captchaToken = page.loginCaptchaCode
    /\ (RegisterSubmitted /\ page'.sent # page.sent) =>
          /\ page.enteredCaptcha = page.captchaCode
          /\ page'.sent = Append(page.sent, RegisterRequest(page))
          /\ RegisterRequest(page).captchaToken = page.captchaCode
    /\ page'.sent # page.sent => LoginSubmitted \/ RegisterSubmitted

\* every submit with a text that is not the code sends nothing, sets an
\* error, draws a new code and clears the text
C21_MismatchRefreshes ==
    /\ (LoginSubmitted /\ page.enteredLoginCaptcha # page.loginCaptchaCode) =>
          /\ page'.sent = page.sent
          /\ page'.loginForm.error # ""
          /\ page'.generated = page.generated + 1
          /\ page'.enteredLoginCaptcha = ""
    /\ (RegisterSubmitted /\ page.enteredCaptcha # page.captchaCode) =>
          /\ page'.sent = page.sent
          /\ page'.registerForm.error # ""
          /\ page'.generated = page.generated + 1
          /\ page'.enteredCaptcha = ""

\* the statement as it is given: the refresh on every mismatch
C21_RefreshOnEveryMismatch ==
    [][C21_SentOnlyOnMatch /\ C21_MismatchRefreshes]_vars

\* a submit with a text that is not the code sends nothing and sets an
\* error; it draws a new code and clears the text when the resolver accepts
\* the form, and leaves the code and the text when it does not
C21_MismatchAfterResolver ==
    /\ (LoginSubmitted /\ page.enteredLoginCaptcha # page.loginCaptchaCode) =>
          /\ page'.sent = page.sent
          /\ page'.loginForm.error # ""
          /\ IF LoginSchemaRejects(page.loginForm)
             THEN /\ page'.generated = page.generated
                  /\ page'.loginCaptchaCode = page.loginCaptchaCode
                  /\ page'.enteredLoginCaptcha = page.enteredLoginCaptcha
             ELSE /\ page'.generated = page.generated + 1
                  /\ page'.enteredLoginCaptcha = ""
    /\ (RegisterSubmitted /\ page.enteredCaptcha # page.captchaCode) =>
          /\ page'.sent = page.sent
          /\ page'.registerForm.error # ""
          /\ IF RegisterSchemaRejects(page.registerForm)
             THEN /\ page'.generated = page.generated
                  /\ page'.captchaCode = page.captchaCode
                  /\ page'.enteredCaptcha = page.enteredCaptcha
             ELSE /\ page'.generated = page.generated + 1
                  /\ page'.enteredCaptcha = ""

\* C21: the login form and the registration form send a request only when
\* the text entered is the displayed captcha code; a submit with another
\* text sends nothing and sets a form error, and when the form passes its
\* schema it also draws a new code and clears the entered text (when the
\* schema rejects the form, the code and the text stay).
C21_CaptchaGate == [][C21_SentOnlyOnMatch /\ C21_MismatchAfterResolver]_vars

\* the login form has sent a request after a submit with a wrong text had
\* drawn a new code, and the registration form was stopped by its captcha
C21_Witness ==
    /\ \E i \in 1..Len(page.sent) : page.sent[i].form = "login"
    /\ page.generated > 2
    /\ page.registerForm.error = "captcha"
    /\ page.enteredCaptcha = ""

\* C28: every registration request the form has sent carries one contact
\* field that is not empty, the one of the contact method selected at the
\* submit: the email and no phone with 'email', the phone and no email with
\* 'phone', whatever was typed and switched before.
C28_OneContactField ==
    \A i \in 1..Len(page.sent) :
        LET r == page.sent[i] IN
        r.form = "register" =>
            /\ r.contactMethod = "email" => r.email # "" /\ r.phone = ""
            /\ r.contactMethod = "phone" => r.phone # "" /\ r.email = ""
            /\ r.contactMethod \in {"email", "phone"}

\* a request with the email was sent, then the method was switched and a
\* request with the phone was sent
C28_Witness ==
    \E i \in 1..Len(page.sent), j \in 1..Len(page.sent) :
        /\ i < j
        /\ page.sent[i].form = "register" /\ page.sent[j].form = "register"
        /\ page.sent[i].contactMethod = "email"
        /\ page.sent[i].email = "a@b.com"
        /\ page.sent[j].contactMethod = "phone"
        /\ page.sent[j].phone = "+15551234567" /\ page.sent[j].email = ""

\* the step is a frame of the animation
FrameStep == sky'.tick # sky.tick /\ sky.pc # "off"

\* C29: in a frame in which a shooting star moves, its initialDelay is 0
\* (it does not move while the delay is above 0) and its opacity is above
\* 0: for the initial shooting stars, for the stars of a burst and after
\* every reset, whatever delay the reset draws.
C29_MovesOnlyVisible ==
    [][FrameStep =>
         \A i \in 1..Len(sky.stars) :
             (sky.stars[i].tail /\ sky'.stars[i].y # sky.stars[i].y) =>
                 /\ sky.stars[i].initialDelay = 0
                 /\ sky.stars[i].opacity > 0]_vars

\* C30: once the cleanup of the instance has run, no frame is drawn, the
\* burst timer and the wave timers fire no more, no burst is scheduled and
\* the star list stays as it is.
C30_CleanupStopsAll ==
    [][sky.pc = "cleaned" =>
         /\ ~sky'.frame /\ sky'.tick = sky.tick
         /\ sky'.burst = sky.burst /\ sky'.waves = sky.waves
         /\ sky'.stars = sky.stars]_vars

====
